---------------------------- MODULE Spec2Model ----------------------------
(***************************************************************************)
(* A model of sos, the salvage-and-rebuild tool (src/sos.cc), and of its   *)
(* page checksum codec (src/codec.h).                                      *)
(*                                                                         *)
(* Spec       the restore driver: main, begin_restore, open_and_dump with  *)
(*            its page loop, restore_page, get_payload with the overflow   *)
(*            walk, commit_transaction, full_checkpoint, complete_restore. *)
(* SpecLive   the restore driver with an engine that does not answer BUSY *)
(*            to a checkpoint for ever.                                    *)
(* SpecCodec  the pager codec: sizeChange and codec called by the engine   *)
(*            on a page buffer.                                            *)
(*                                                                         *)
(* The source file is kept structurally: a page is its flag byte, the      *)
(* big-endian word that starts it (the overflow link) and its cells; a     *)
(* payload is the list of (source page, length) segments copied into it.   *)
(* All sizes are the byte counts of the source.                            *)
(***************************************************************************)
EXTENDS Integers, Sequences, FiniteSets, TLC

(***************************************************************************)
(* Program constants (src/sos.cc:31-35, 258-264).                          *)
(***************************************************************************)
page_size == 4096
reserved_page_size == 8
usable_size == page_size - reserved_page_size
max_local == ((usable_size - 12) * 64) \div 255 - 23
min_local == ((usable_size - 12) * 32) \div 255 - 23

default_start_page == 2
default_pages_per_transaction == 1024
default_transaction_per_checkpoint == 10

\* Flag bytes: index leaf, index interior (sos.cc:106-112).
FlagLeaf == 10
FlagInterior == 2

(***************************************************************************)
(* Bounds of the model.                                                    *)
(***************************************************************************)
\* longest source file made of index leaves only
MaxPages == 24
\* longest source file mixing recognised and unrecognised pages
MaxMixed == 4
\* most cells of the index page of a file with overflow chains
MaxCells == 2
\* the iteration counter of the overflow walk saturates here
MaxIter == 6
\* the count of BUSY answers to one checkpoint call saturates here
MaxBusy == 2
\* largest value given for an optional argument
MaxArg == 2
\* every payload size up to this one is declared by a cell of some source file
MaxEmbed == 1100

Min(a, b) == IF a < b THEN a ELSE b

(***************************************************************************)
(* The source file.                                                        *)
(***************************************************************************)
\* A cell as get_payload finds it: the cell pointer, the payload size the
\* varint at the pointer decodes to, and the word that follows the local
\* bytes (the first overflow page, read only when the payload spills).
Cell(offset, P, ovfl) == [offset |-> offset, P |-> P, ovfl |-> ovfl]

\* A page: flag is byte 0; next is bytes 1..3 of the first big-endian word;
\* cells is the cell pointer array (index pages).
Page(flag, next, cells) == [flag |-> flag, next |-> next, cells |-> cells]

OverflowPage(link) == Page(0, link, <<>>)
LeafPage(cells) == Page(FlagLeaf, 0, cells)
InteriorPage(cells) == Page(FlagInterior, 0, cells)
\* a table leaf (0x05) and page 1, which starts "SQLite format 3" (0x53),
\* stand for every page whose first byte is another value
TablePage == Page(5, 0, <<>>)
HeaderPage == Page(83, 0, <<>>)

\* the first four bytes of a page as a big-endian integer (sos.cc:173)
Link(page) == page.flag * 16777216 + page.next

\* a key of 5 local bytes, an empty payload, and a cell pointer of 65535,
\* past the page, at which the bytes found decode to a payload of 7 bytes
LocalCell == Cell(4000, 5, 0)
EmptyCell == Cell(4000, 0, 0)
BadCell == Cell(65535, 7, 0)
\* a cell pointer into the page header, where the bytes decode to 7 too
HeaderCell == Cell(4, 7, 0)

SeqsUpTo(S, n) == UNION {[1..k -> S] : k \in 0..n}

\* index leaves only, page 1 the header; some with a partial trailing page
UniformFiles ==
    {[pages |-> [p \in 1..n |-> IF p = 1 THEN HeaderPage ELSE LeafPage(<<LocalCell>>)],
      tail |-> t] : n \in 1..MaxPages, t \in {0, 100}}

\* recognised and unrecognised pages mixed
MixedPages == {TablePage, LeafPage(<<>>), LeafPage(<<LocalCell, LocalCell>>),
               InteriorPage(<<LocalCell>>)}
MixedFiles ==
    {[pages |-> <<HeaderPage>> \o s, tail |-> 0] : s \in SeqsUpTo(MixedPages, MaxMixed - 1)}

\* three pages: the header, an index page, a page with a small first word;
\* the cells spill into chains that end, leave the file, or come back
ChainLinks == 0..4
ChainCells == {LocalCell, EmptyCell, BadCell, HeaderCell, Cell(4000, max_local + 1, 3)}
              \cup {Cell(4000, 6000, o) : o \in ChainLinks}
ChainFiles ==
    {[pages |-> <<HeaderPage, Page(f, 0, cs), OverflowPage(l)>>, tail |-> 0] :
        f \in {FlagLeaf, FlagInterior}, cs \in SeqsUpTo(ChainCells, MaxCells), l \in ChainLinks}

\* two pages: the header and a leaf whose one cell declares a payload size
\* taken from every size up to MaxEmbed, the sizes around the points where
\* the surplus formula wraps, and the largest 32-bit size; the word after
\* the local bytes is 0
EmbedSizes ==
    0..MaxEmbed
    \cup {k * (usable_size - 4) + b + d :
             k \in 1..2, b \in {min_local, max_local}, d \in {-1, 0, 1}}
    \cup {2147483647}
EmbedFiles ==
    {[pages |-> <<HeaderPage, LeafPage(<<Cell(4000, P, 0)>>)>>, tail |-> 0] : P \in EmbedSizes}

\* the bytes of a payload of P bytes that lie on the b-tree page, the rest
\* being on overflow pages (the cell format, sos.cc:76-83)
LocalBytes(P) ==
    LET surplus == min_local + ((P - min_local) % (usable_size - 4))
    IN  IF P <= max_local THEN P
        ELSE IF surplus <= max_local THEN surplus ELSE min_local

\* the number of overflow pages that carry the rest
OverflowCount(P) ==
    LET rest == P - LocalBytes(P)
    IN  rest \div (usable_size - 4) + (IF rest % (usable_size - 4) = 0 THEN 0 ELSE 1)

\* five pages: the header, an index page with one cell, and three pages
\* that hold the cell's overflow chain, complete, in the order given
SpillSizes == {max_local + 1, min_local + (usable_size - 4), max_local + (usable_size - 4),
               6000, min_local + 2 * (usable_size - 4), 13000}
SpillOrders == {<<3, 4, 5>>, <<5, 3, 4>>, <<4, 5, 3>>}
SpillFile(flag, P, order) ==
    [pages |-> [p \in 1..5 |->
        IF p = 1 THEN HeaderPage
        ELSE IF p = 2 THEN Page(flag, 0, <<Cell(4000, P, order[1])>>)
        ELSE LET k == CHOOSE k \in 1..3 : order[k] = p
             IN  IF k < OverflowCount(P) THEN OverflowPage(order[k + 1])
                 ELSE IF k = OverflowCount(P) THEN OverflowPage(0)
                 ELSE TablePage],
     tail |-> 0]
SpillFiles ==
    {SpillFile(f, P, o) : f \in {FlagLeaf, FlagInterior}, P \in SpillSizes, o \in SpillOrders}

(***************************************************************************)
(* The command line.  An argument is a string; a character is 0..9 for a   *)
(* digit and 10 for any other character.                                   *)
(***************************************************************************)
Str(n) == <<n>>
NotANumber == <<10>>
TrailingGarbage == <<2, 10>>

Argv(argc, a3, a4, a5) == [argc |-> argc, a3 |-> a3, a4 |-> a4, a5 |-> a5]

GoodArgs ==
    {Argv(4, Str(n), <<>>, <<>>) : n \in {2, 3}}
    \cup {Argv(5, Str(2), Str(n), <<>>) : n \in 1..MaxArg}
    \cup {Argv(6, Str(2), Str(1), Str(n)) : n \in 1..MaxArg}
    \cup {Argv(7, Str(2), Str(1), Str(1))}

BadArgs ==
    {Argv(3, <<>>, <<>>, <<>>)}
    \cup {Argv(4, s, <<>>, <<>>) : s \in {Str(1), NotANumber, TrailingGarbage, <<>>}}
    \cup {Argv(5, Str(2), s, <<>>) : s \in {Str(0), NotANumber}}
    \cup {Argv(6, Str(2), Str(1), s) : s \in {Str(0), TrailingGarbage}}

Input(args, file) == [args |-> args, file |-> file]

Inputs ==
    {Input(a, f) : a \in GoodArgs, f \in UniformFiles \cup MixedFiles}
    \cup {Input(a, f) : a \in {Argv(4, Str(2), <<>>, <<>>), Argv(5, Str(2), Str(1), <<>>)},
                        f \in ChainFiles}
    \cup {Input(Argv(4, Str(2), <<>>, <<>>), f) : f \in EmbedFiles \cup SpillFiles}
    \cup {Input(a, [pages |-> <<HeaderPage, LeafPage(<<LocalCell>>)>>, tail |-> 0]) :
            a \in BadArgs}

\* strtol(s, &end, 10): the value of the longest prefix of digits and the
\* position where it ends
RECURSIVE DigitCount(_)
DigitCount(s) ==
    IF s = <<>> \/ Head(s) > 9 THEN 0 ELSE 1 + DigitCount(Tail(s))

RECURSIVE DigitsValue(_, _)
DigitsValue(s, n) ==
    IF n = 0 THEN 0 ELSE 10 * DigitsValue(s, n - 1) + s[n]

strtol(s) == [value |-> DigitsValue(s, DigitCount(s)), end |-> DigitCount(s)]

\* end == argv[k] || *end != 0
BadNumber(s) == strtol(s).end = 0 \/ strtol(s).end < Len(s)

\* restore_context_t after construction (sos.cc:250-267)
InitCtx ==
    [start_page |-> default_start_page,
     pages_in_transaction |-> 0,
     pages_per_transaction |-> default_pages_per_transaction,
     transaction_in_checkpoint |-> 0,
     transaction_per_checkpoint |-> default_transaction_per_checkpoint]

InitMetrics == [pages |-> 0, skip_pages |-> 0, cells |-> 0, bytes |-> 0]

\* main's argument handling (sos.cc:493-532): the context it builds, and
\* whether it ends the process with exit(1)
ParseArgs(a) ==
    LET c1 == [InitCtx EXCEPT !.start_page = strtol(a.a3).value]
        c2 == IF a.argc = 5
              THEN [c1 EXCEPT !.pages_per_transaction = strtol(a.a4).value]
              ELSE c1
        c3 == IF a.argc = 6
              THEN [c2 EXCEPT !.transaction_per_checkpoint = strtol(a.a5).value]
              ELSE c2
    IN  IF a.argc < 4 THEN [ok |-> FALSE, ctx |-> InitCtx]
        ELSE IF BadNumber(a.a3) \/ c1.start_page < 2 THEN [ok |-> FALSE, ctx |-> c1]
        ELSE IF a.argc = 5 /\ (BadNumber(a.a4) \/ c2.pages_per_transaction < 1)
             THEN [ok |-> FALSE, ctx |-> c2]
        ELSE IF a.argc = 6 /\ (BadNumber(a.a5) \/ c3.transaction_per_checkpoint < 1)
             THEN [ok |-> FALSE, ctx |-> c3]
        ELSE [ok |-> TRUE, ctx |-> c3]


(***************************************************************************)
(* State.                                                                  *)
(***************************************************************************)
VARIABLES
    input,              \* the command line and the source file (never changes)
    pc,                 \* where the process is
    ctx,                \* restore_context_t: start_page and the four counters
    metrics,            \* metrics_t
    i,                  \* the page loop's variable
    cell_index,         \* restore_page's loop variable
    payload,            \* payload_t being built by get_payload
    overflow_page_id,   \* loop_overflow_pages' local
    eng,                \* the template database as the engine holds it; misuse
                        \* records a call made in a state that does not allow it
    cp,                 \* the running full_checkpoint: mode, caller, BUSY count
    walk,               \* history: the pages the current overflow walk has read
    batch,              \* history: the pages restored in the open transaction
    batches,            \* history: the committed batches, as page lists
    inserted,           \* history: every key insert_key accepted, in order
    cp_at,              \* history: the commit count at each in-loop checkpoint
    db,                 \* database_t: the mapping of the source file
    failure,            \* history: the first failure met ("none" until then)
    self,               \* page_checksum_codec_t: pageSize, reserveSize
    data,               \* the page buffer handed to the codec, in 32-bit words
    calls               \* history: the hook calls the engine has made, in order

driver_vars == <<input, pc, ctx, metrics, i, cell_index, payload, overflow_page_id,
                 eng, cp, walk, batch, batches, inserted, cp_at, db, failure>>
codec_vars == <<self, data, calls>>
vars == <<driver_vars, codec_vars>>

file == input.file
\* st.st_size
file_size == Len(file.pages) * page_size + file.tail

\* database_t::get_page_size: the number of whole pages of the file
get_page_size == file_size \div 4096

\* whether page pno lies inside the mapping
Mapped(pno) == 1 <= pno /\ pno <= file_size \div page_size

is_index_leaf(page) == page.flag = FlagLeaf
is_index_interior(page) == page.flag = FlagInterior

\* the size of the b-tree page header get_cells skips (sos.cc:136-140)
header_size(page) == IF is_index_leaf(page) THEN 8 ELSE 12

RECURSIVE Pow2Mod(_, _)
Pow2Mod(k, m) == IF k = 0 THEN 1 % m ELSE (2 * Pow2Mod(k - 1, m)) % m

\* (a - b) in uint64_t arithmetic, reduced modulo m
SubU64Mod(a, b, m) == ((a % m) - (b % m) + (IF a < b THEN Pow2Mod(64, m) ELSE 0) + m) % m

\* calculate_embed_payload_size without the cap at max_local
calculate_embed_payload_size_uncapped(payload_body_size) ==
    min_local + SubU64Mod(payload_body_size, min_local, usable_size - 4)

calculate_embed_payload_size(payload_body_size) ==
    LET surplus == min_local + SubU64Mod(payload_body_size, min_local, usable_size - 4)
    IN  IF surplus <= max_local THEN surplus ELSE min_local

NoPayload == [payload_body_size |-> 0, max_embed_payload_size |-> 0, segs |-> <<>>,
              done |-> 0, valid |-> TRUE]
NoCheckpoint == [restart |-> FALSE, ret |-> "none", busy |-> 0, log |-> <<>>]

\* one call of sqlite3_wal_checkpoint_v2: the mode asked for and the answer
Attempt(restart, rc) == [restart |-> restart, rc |-> rc]

\* a piece of a payload buffer: len bytes copied from page src
Seg(src, len) == [src |-> src, len |-> len]
AddSeg(segs, src, len) == IF len > 0 THEN Append(segs, Seg(src, len)) ELSE segs

Key(pno, idx, pl) == [pno |-> pno, idx |-> idx, size |-> pl.payload_body_size, segs |-> pl.segs]

\* database_t before and after mmap (sos.cc:469-478): the size of the file
\* and whether base points to a mapping of it
NoDatabase == [size |-> 0, base |-> "nullptr"]
Database(base) == [size |-> file_size, base |-> base]

\* the first failure met stays on record
Fail(kind) == IF failure = "none" THEN kind ELSE failure

\* the outcomes of an engine call that check_error judges
EngineResults == {"ok", "error"}

Init ==
    /\ input \in Inputs
    /\ pc = "main"
    /\ ctx = InitCtx
    /\ metrics = InitMetrics
    /\ i = 0
    /\ cell_index = 0
    /\ payload = NoPayload
    /\ overflow_page_id = 0
    /\ eng = [open |-> FALSE, tx |-> FALSE, cursor |-> FALSE, pending |-> <<>>,
              committed |-> <<>>, misuse |-> FALSE]
    /\ cp = NoCheckpoint
    /\ walk = <<>>
    /\ batch = <<>>
    /\ batches = <<>>
    /\ inserted = <<>>
    /\ cp_at = <<>>
    /\ db = NoDatabase
    /\ failure = "none"
    /\ self = [pageSize |-> 0, reserveSize |-> 0]
    /\ data = <<>>
    /\ calls = <<>>

(***************************************************************************)
(* main, begin_restore, open_and_dump.                                     *)
(***************************************************************************)
\* sos.cc:493-535: the arguments are parsed; a bad one ends the process
main ==
    /\ pc = "main"
    /\ ctx' = ParseArgs(input.args).ctx
    /\ pc' = IF ParseArgs(input.args).ok THEN "begin_restore" ELSE "exit1"
    /\ failure' = IF ParseArgs(input.args).ok THEN failure ELSE Fail("argument")
    /\ UNCHANGED <<input, db, metrics, i, cell_index, payload, overflow_page_id, eng, cp,
                   walk, batch, batches, inserted, cp_at, codec_vars>>

\* sos.cc:323-355: the template is opened, the codec installed, the pragmas run
begin_restore ==
    /\ pc = "begin_restore"
    /\ \E r \in EngineResults :
        IF r = "ok"
        THEN /\ eng' = [eng EXCEPT !.open = TRUE]
             /\ pc' = "open_and_dump"
             /\ UNCHANGED failure
        ELSE /\ pc' = "exit1"
             /\ failure' = Fail("engine")
             /\ UNCHANGED eng
    /\ UNCHANGED <<input, db, ctx, metrics, i, cell_index, payload, overflow_page_id, cp,
                   walk, batch, batches, inserted, cp_at, codec_vars>>

\* open_and_dump starting its loop at page 1, whatever start_page is
open_and_dump_from_page_one ==
    /\ pc = "open_and_dump"
    /\ \E r \in {"ok", "stat", "open", "mmap"} :
        IF r \in {"stat", "open"}
        THEN /\ pc' = "exit1"
             /\ failure' = Fail(r)
             /\ UNCHANGED <<i, db>>
        ELSE /\ db' = Database(IF r = "ok" THEN "mapped" ELSE "MAP_FAILED")
             /\ failure' = IF r = "ok" THEN failure ELSE Fail(r)
             /\ i' = 1
             /\ pc' = "loop"
    /\ UNCHANGED <<input, ctx, metrics, cell_index, payload, overflow_page_id, eng, cp,
                   walk, batch, batches, inserted, cp_at, codec_vars>>

\* sos.cc:460-481: stat, open and mmap of the source file, the loop's start.
\* A failing stat or open ends the process; the result of mmap is stored
\* without being looked at.
open_and_dump ==
    /\ pc = "open_and_dump"
    /\ \E r \in {"ok", "stat", "open", "mmap"} :
        IF r \in {"stat", "open"}
        THEN /\ pc' = "exit1"
             /\ failure' = Fail(r)
             /\ UNCHANGED <<i, db>>
        ELSE /\ db' = Database(IF r = "ok" THEN "mapped" ELSE "MAP_FAILED")
             /\ failure' = IF r = "ok" THEN failure ELSE Fail(r)
             /\ i' = ctx.start_page
             /\ pc' = "loop"
    /\ UNCHANGED <<input, ctx, metrics, cell_index, payload, overflow_page_id, eng, cp,
                   walk, batch, batches, inserted, cp_at, codec_vars>>

(***************************************************************************)
(* The page loop.                                                          *)
(***************************************************************************)
InLoop == i < get_page_size + 1
ThisPage == file.pages[i]
Recognised(page) == is_index_leaf(page) \/ is_index_interior(page)

\* sos.cc:481: the loop condition fails; main goes on to complete_restore
loop_exit ==
    /\ pc = "loop"
    /\ ~InLoop
    /\ pc' = "complete_restore"
    /\ UNCHANGED <<input, db, failure, ctx, metrics, i, cell_index, payload, overflow_page_id, eng, cp,
                   walk, batch, batches, inserted, cp_at, codec_vars>>

\* the skip without its continue: the page is counted as skipped and then
\* joins, or begins, the transaction's page count
skip_page_joins_transaction ==
    /\ pc = "loop"
    /\ InLoop
    /\ db.base = "mapped"
    /\ ~Recognised(ThisPage)
    /\ metrics' = [metrics EXCEPT !.skip_pages = @ + 1]
    /\ ctx' = [ctx EXCEPT !.pages_in_transaction = @ + 1]
    /\ i' = i + 1
    /\ UNCHANGED <<input, db, failure, pc, cell_index, payload, overflow_page_id, eng, cp,
                   walk, batch, batches, inserted, cp_at, codec_vars>>

\* sos.cc:484-487: a page that is neither an index leaf nor an index interior
skip_page ==
    /\ pc = "loop"
    /\ InLoop
    /\ db.base = "mapped"
    /\ ~Recognised(ThisPage)
    /\ metrics' = [metrics EXCEPT !.skip_pages = @ + 1]
    /\ i' = i + 1
    /\ UNCHANGED <<input, db, failure, pc, ctx, cell_index, payload, overflow_page_id, eng, cp,
                   walk, batch, batches, inserted, cp_at, codec_vars>>

\* sos.cc:482-487 when mmap had failed: base is MAP_FAILED and the read of
\* the page's first byte is undefined; the process dies there, or finds a
\* byte (one that is neither 0x02 nor 0x0a stands for them)
get_page_unmapped ==
    /\ pc = "loop"
    /\ InLoop
    /\ db.base = "MAP_FAILED"
    /\ \E outcome \in {"fault", "byte"} :
        IF outcome = "fault"
        THEN /\ pc' = "crashed"
             /\ UNCHANGED <<metrics, i>>
        ELSE /\ metrics' = [metrics EXCEPT !.skip_pages = @ + 1]
             /\ i' = i + 1
             /\ UNCHANGED pc
    /\ UNCHANGED <<input, db, failure, ctx, cell_index, payload, overflow_page_id, eng, cp,
                   walk, batch, batches, inserted, cp_at, codec_vars>>

\* start_transaction (sos.cc:381-392): the counter it leaves
start_transaction_count(c) ==
    IF c.pages_in_transaction > 0 THEN c.pages_in_transaction + 1 ELSE 1

\* dump_index_page counting only the pages that have cells
dump_index_page_counts_nonempty ==
    /\ pc = "loop"
    /\ InLoop
    /\ db.base = "mapped"
    /\ Recognised(ThisPage)
    /\ metrics' = [metrics EXCEPT !.pages = IF ThisPage.cells = <<>> THEN @ ELSE @ + 1]
    /\ ctx' = [ctx EXCEPT !.pages_in_transaction = start_transaction_count(ctx)]
    /\ batch' = Append(batch, i)
    /\ pc' = "start_transaction"
    /\ UNCHANGED <<input, db, failure, i, cell_index, payload, overflow_page_id, eng, cp,
                   walk, batches, inserted, cp_at, codec_vars>>

\* dump_index_page (sos.cc:449-458) up to the cell loop of restore_page
\* (sos.cc:412-418): the page is counted, start_transaction joins the open
\* transaction or begins one and opens the cursor, the cells are counted
dump_index_page ==
    /\ pc = "loop"
    /\ InLoop
    /\ db.base = "mapped"
    /\ Recognised(ThisPage)
    /\ metrics' = [metrics EXCEPT !.pages = @ + 1]
    /\ ctx' = [ctx EXCEPT !.pages_in_transaction = start_transaction_count(ctx)]
    /\ batch' = Append(batch, i)
    /\ pc' = "start_transaction"
    /\ UNCHANGED <<input, db, failure, i, cell_index, payload, overflow_page_id, eng, cp,
                   walk, batches, inserted, cp_at, codec_vars>>

\* sqlite3BtreeBeginTrans and sqlite3BtreeCursor as start_transaction issues
\* them (sos.cc:387-390), r naming the call that fails, if one does: the
\* engine after them.  A transaction is begun while none is open, a cursor
\* opened inside a transaction that has none.
BeginAndOpen(e, r) ==
    [e EXCEPT !.tx = (r # "BtreeBeginTrans"),
              !.cursor = (r = "ok"),
              !.misuse = @ \/ e.tx \/ (r # "BtreeBeginTrans" /\ e.cursor)]

\* start_transaction beginning a transaction for every page
start_transaction_always_begins ==
    /\ pc = "start_transaction"
    /\ \E r \in {"ok", "BtreeBeginTrans", "BtreeCursor"} :
        /\ eng' = BeginAndOpen(eng, r)
        /\ IF r = "ok"
           THEN /\ metrics' = [metrics EXCEPT !.cells = @ + Len(ThisPage.cells)]
                /\ cell_index' = 0
                /\ pc' = "cell"
                /\ UNCHANGED failure
           ELSE /\ pc' = "exit1"
                /\ failure' = Fail("engine")
                /\ UNCHANGED <<metrics, cell_index>>
    /\ UNCHANGED <<input, db, ctx, i, payload, overflow_page_id, cp,
                   walk, batch, batches, inserted, cp_at, codec_vars>>

\* the engine calls of start_transaction (sos.cc:385-391), made when the
\* counter was 0, and restore_page's count of the cells (sos.cc:416)
start_transaction ==
    /\ pc = "start_transaction"
    /\ \E r \in IF ctx.pages_in_transaction > 1 THEN {"ok"}
                ELSE {"ok", "BtreeBeginTrans", "BtreeCursor"} :
        /\ eng' = IF ctx.pages_in_transaction > 1 THEN eng ELSE BeginAndOpen(eng, r)
        /\ IF r = "ok"
           THEN /\ metrics' = [metrics EXCEPT !.cells = @ + Len(ThisPage.cells)]
                /\ cell_index' = 0
                /\ pc' = "cell"
                /\ UNCHANGED failure
           ELSE /\ pc' = "exit1"
                /\ failure' = Fail("engine")
                /\ UNCHANGED <<metrics, cell_index>>
    /\ UNCHANGED <<input, db, ctx, i, payload, overflow_page_id, cp,
                   walk, batch, batches, inserted, cp_at, codec_vars>>

(***************************************************************************)
(* get_payload and loop_overflow_pages.                                    *)
(***************************************************************************)
ThisCell == ThisPage.cells[cell_index + 1]

\* the bytes at position + cell_offset lie inside the mapping
CellMapped == (i - 1) * page_size + ThisCell.offset < file_size

\* get_payload (sos.cc:182-217).  The cell pointer is used as it is read.
\* Reading outside the mapping is undefined: the process may die there, or
\* go on with what the bytes decode to.
get_payload ==
    /\ pc = "cell"
    /\ cell_index < Len(ThisPage.cells)
    /\ \E outcome \in IF CellMapped THEN {"read"} ELSE {"read", "fault"} :
        IF outcome = "fault"
        THEN /\ pc' = "crashed"
             /\ UNCHANGED <<payload, overflow_page_id, walk>>
        ELSE LET P == ThisCell.P
                 local == calculate_embed_payload_size(P)
             IN  IF P > local
                 THEN /\ payload' = [payload_body_size |-> P, valid |-> TRUE,
                                     max_embed_payload_size |-> local,
                                     segs |-> AddSeg(<<>>, i, local), done |-> local]
                      /\ overflow_page_id' = ThisCell.ovfl
                      /\ walk' = <<>>
                      /\ pc' = "overflow"
                 ELSE /\ payload' = [payload_body_size |-> P, valid |-> TRUE,
                                     max_embed_payload_size |-> local,
                                     segs |-> AddSeg(<<>>, i, P), done |-> P]
                      /\ pc' = "insert"
                      /\ UNCHANGED <<overflow_page_id, walk>>
    /\ UNCHANGED <<input, db, failure, ctx, metrics, i, cell_index, eng, cp,
                   batch, batches, inserted, cp_at, codec_vars>>

\* what reading the first word of page pno gives: the word of a mapped
\* page; outside the mapping the read is undefined, and the process may
\* die or find any word there (0 and 1 stand for them)
Fetch(link) == [fault |-> FALSE, link |-> link]
Fault == [fault |-> TRUE, link |-> 0]
ReadLink(pno) ==
    IF Mapped(pno) THEN {Fetch(Link(file.pages[pno]))} ELSE {Fault, Fetch(0), Fetch(1)}

\* loop_overflow_pages copying a whole usable page from each overflow page,
\* the four bytes of the link counted as content
loop_overflow_pages_link_as_content ==
    /\ pc = "overflow"
    /\ overflow_page_id # 0
    /\ walk' = IF Len(walk) < MaxIter THEN Append(walk, overflow_page_id) ELSE walk
    /\ \E r \in ReadLink(overflow_page_id) :
        IF r.fault
        THEN /\ pc' = "crashed"
             /\ UNCHANGED <<payload, overflow_page_id>>
        ELSE LET todo == Min(payload.payload_body_size - payload.done, usable_size)
             IN  /\ overflow_page_id' = r.link
                 /\ payload' = [payload EXCEPT
                                    !.segs = AddSeg(@, overflow_page_id, todo),
                                    !.done = @ + todo]
                 /\ UNCHANGED pc
    /\ UNCHANGED <<input, db, failure, ctx, metrics, i, cell_index, eng, cp,
                   batch, batches, inserted, cp_at, codec_vars>>

\* one iteration of the while loop of loop_overflow_pages (sos.cc:170-179)
loop_overflow_pages ==
    /\ pc = "overflow"
    /\ overflow_page_id # 0
    /\ walk' = IF Len(walk) < MaxIter THEN Append(walk, overflow_page_id) ELSE walk
    /\ \E r \in ReadLink(overflow_page_id) :
        IF r.fault
        THEN /\ pc' = "crashed"
             /\ UNCHANGED <<payload, overflow_page_id>>
        ELSE LET todo == Min(payload.payload_body_size - payload.done, usable_size - 4)
             IN  /\ overflow_page_id' = r.link
                 /\ payload' = [payload EXCEPT
                                    !.segs = AddSeg(@, overflow_page_id, todo),
                                    !.done = @ + todo]
                 /\ UNCHANGED pc
    /\ UNCHANGED <<input, db, failure, ctx, metrics, i, cell_index, eng, cp,
                   batch, batches, inserted, cp_at, codec_vars>>

\* the while condition fails: loop_overflow_pages and get_payload return
overflow_done ==
    /\ pc = "overflow"
    /\ overflow_page_id = 0
    /\ pc' = "insert"
    /\ UNCHANGED <<input, db, failure, ctx, metrics, i, cell_index, payload, overflow_page_id, eng, cp,
                   walk, batch, batches, inserted, cp_at, codec_vars>>

(***************************************************************************)
(* restore_page, commit_transaction, the checkpoints, complete_restore.    *)
(***************************************************************************)
\* restore_page with commit_transaction's work done inside the cell loop:
\* once the commit is due, each key is committed as it is inserted
restore_page_commit_in_loop ==
    /\ pc = "insert"
    /\ IF ~payload.valid \/ payload.payload_body_size = 0
       THEN /\ pc' = "cell"
            /\ cell_index' = cell_index + 1
            /\ UNCHANGED <<metrics, eng, inserted, failure>>
       ELSE /\ metrics' = [metrics EXCEPT !.bytes = @ + payload.payload_body_size]
            /\ \E r \in {"ok", "error"} :
                IF r = "ok"
                THEN /\ eng' = IF ctx.pages_in_transaction > ctx.pages_per_transaction
                               THEN [eng EXCEPT !.committed =
                                        @ \o Append(eng.pending, Key(i, cell_index, payload)),
                                                !.pending = <<>>]
                               ELSE [eng EXCEPT !.pending =
                                        Append(@, Key(i, cell_index, payload))]
                     /\ inserted' = Append(inserted, Key(i, cell_index, payload))
                     /\ cell_index' = cell_index + 1
                     /\ pc' = "cell"
                     /\ UNCHANGED failure
                ELSE /\ pc' = "exit1"
                     /\ failure' = Fail("engine")
                     /\ eng' = [eng EXCEPT !.misuse = @ \/ ~eng.cursor]
                     /\ UNCHANGED <<inserted, cell_index>>
    /\ UNCHANGED <<input, db, ctx, i, payload, overflow_page_id, cp,
                   walk, batch, batches, cp_at, codec_vars>>

\* the rest of the body of restore_page's loop (sos.cc:421-431): an empty
\* or invalid payload is passed over, any other is inserted as a key
restore_page ==
    /\ pc = "insert"
    /\ IF ~payload.valid \/ payload.payload_body_size = 0
       THEN /\ pc' = "cell"
            /\ cell_index' = cell_index + 1
            /\ UNCHANGED <<metrics, eng, inserted, failure>>
       ELSE /\ metrics' = [metrics EXCEPT !.bytes = @ + payload.payload_body_size]
            /\ \E r \in EngineResults :
                IF r = "ok"
                THEN /\ eng' = [eng EXCEPT !.pending = Append(@, Key(i, cell_index, payload)),
                                           !.misuse = @ \/ ~eng.cursor]
                     /\ inserted' = Append(inserted, Key(i, cell_index, payload))
                     /\ cell_index' = cell_index + 1
                     /\ pc' = "cell"
                     /\ UNCHANGED failure
                ELSE /\ pc' = "exit1"
                     /\ failure' = Fail("engine")
                     /\ eng' = [eng EXCEPT !.misuse = @ \/ ~eng.cursor]
                     /\ UNCHANGED <<inserted, cell_index>>
    /\ UNCHANGED <<input, db, ctx, i, payload, overflow_page_id, cp,
                   walk, batch, batches, cp_at, codec_vars>>

\* commit_transaction's condition (sos.cc:395)
CommitDue(c) == c.pages_in_transaction > c.pages_per_transaction

\* the condition of the in-loop full checkpoint (sos.cc:406)
CheckpointDue(c) == c.transaction_in_checkpoint > c.transaction_per_checkpoint

\* commit_transaction (sos.cc:394-410), called when the cells of the page
\* are done (sos.cc:433); full_checkpoint's reset (sos.cc:374) is part of it
commit_transaction ==
    /\ pc = "cell"
    /\ cell_index >= Len(ThisPage.cells)
    /\ IF CommitDue(ctx)
       THEN \E r \in {"ok", "BtreeCloseCursor", "BtreeCommit"} :
            LET counted == [ctx EXCEPT !.pages_in_transaction = 0,
                                       !.transaction_in_checkpoint = @ + 1]
            IN  IF r = "ok"
                THEN /\ UNCHANGED failure
                     /\ eng' = [eng EXCEPT !.cursor = FALSE, !.tx = FALSE,
                                           !.committed = @ \o eng.pending,
                                           !.pending = <<>>,
                                           !.misuse = @ \/ ~eng.cursor \/ ~eng.tx]
                     /\ batches' = Append(batches, batch)
                     /\ batch' = <<>>
                     /\ IF CheckpointDue(counted)
                        THEN /\ ctx' = [counted EXCEPT !.transaction_in_checkpoint = 0]
                             /\ cp' = [NoCheckpoint EXCEPT !.ret = "loop"]
                             /\ cp_at' = Append(cp_at, Len(batches) + 1)
                             /\ pc' = "checkpoint"
                             /\ UNCHANGED i
                        ELSE /\ ctx' = counted
                             /\ i' = i + 1
                             /\ pc' = "loop"
                             /\ UNCHANGED <<cp, cp_at>>
                ELSE /\ ctx' = [ctx EXCEPT !.pages_in_transaction = 0]
                     /\ eng' = [eng EXCEPT !.cursor = (r = "BtreeCloseCursor"),
                                           !.misuse = @ \/ ~eng.cursor
                                                        \/ (r = "BtreeCommit" /\ ~eng.tx)]
                     /\ pc' = "exit1"
                     /\ failure' = Fail("engine")
                     /\ UNCHANGED <<i, cp, cp_at, batch, batches>>
       ELSE /\ i' = i + 1
            /\ pc' = "loop"
            /\ UNCHANGED <<ctx, eng, cp, cp_at, batch, batches, failure>>
    /\ UNCHANGED <<input, db, metrics, cell_index, payload, overflow_page_id,
                   walk, inserted, codec_vars>>

\* checkpoint leaving its loop on BUSY as it does on success
checkpoint_attempt_busy_breaks(rc) ==
    /\ pc = "checkpoint"
    /\ IF rc = "error"
       THEN /\ cp' = [cp EXCEPT !.log = Append(@, Attempt(cp.restart, rc))]
            /\ pc' = "exit1"
            /\ failure' = Fail("engine")
            /\ UNCHANGED i
       ELSE IF ~cp.restart
            THEN /\ cp' = [cp EXCEPT !.restart = TRUE, !.busy = 0,
                                     !.log = Append(@, Attempt(cp.restart, rc))]
                 /\ UNCHANGED <<pc, i, failure>>
            ELSE /\ cp' = [NoCheckpoint EXCEPT !.log = Append(cp.log, Attempt(cp.restart, rc))]
                 /\ pc' = IF cp.ret = "loop" THEN "loop" ELSE "close"
                 /\ i' = IF cp.ret = "loop" THEN i + 1 ELSE i
                 /\ UNCHANGED failure
    /\ UNCHANGED <<input, db, ctx, metrics, cell_index, payload, overflow_page_id, eng,
                   walk, batch, batches, inserted, cp_at, codec_vars>>

\* one pass of the loop of checkpoint (sos.cc:358-370) in which the engine
\* answers rc: FULL first, then RESTART; BUSY sleeps 10 ms and tries again,
\* any other error ends the process.  cp.log keeps the attempts of the full
\* checkpoint, those past MaxBusy BUSY answers in a row left out.
checkpoint_attempt(rc) ==
    /\ pc = "checkpoint"
    /\ CASE rc = "ok" ->
                IF ~cp.restart
                THEN /\ cp' = [cp EXCEPT !.restart = TRUE, !.busy = 0,
                                         !.log = Append(@, Attempt(cp.restart, rc))]
                     /\ UNCHANGED <<pc, i, failure>>
                ELSE /\ cp' = [NoCheckpoint EXCEPT
                                  !.log = Append(cp.log, Attempt(cp.restart, rc))]
                     /\ pc' = IF cp.ret = "loop" THEN "loop" ELSE "close"
                     /\ i' = IF cp.ret = "loop" THEN i + 1 ELSE i
                     /\ UNCHANGED failure
          [] rc = "busy" ->
                /\ cp' = IF cp.busy < MaxBusy
                         THEN [cp EXCEPT !.busy = @ + 1,
                                         !.log = Append(@, Attempt(cp.restart, rc))]
                         ELSE cp
                /\ UNCHANGED <<pc, i, failure>>
          [] rc = "error" ->
                /\ cp' = [cp EXCEPT !.log = Append(@, Attempt(cp.restart, rc))]
                /\ pc' = "exit1"
                /\ failure' = Fail("engine")
                /\ UNCHANGED i
    /\ UNCHANGED <<input, db, ctx, metrics, cell_index, payload, overflow_page_id, eng,
                   walk, batch, batches, inserted, cp_at, codec_vars>>

\* checkpoint (sos.cc:358-370), as full_checkpoint calls it (sos.cc:375-376)
checkpoint == \E rc \in {"ok", "busy", "error"} : checkpoint_attempt(rc)

\* the engine gives an answer other than BUSY
checkpoint_answered == \E rc \in {"ok", "error"} : checkpoint_attempt(rc)

\* complete_restore (sos.cc:436-437): the final full checkpoint begins
complete_restore ==
    /\ pc = "complete_restore"
    /\ ctx' = [ctx EXCEPT !.transaction_in_checkpoint = 0]
    /\ cp' = [NoCheckpoint EXCEPT !.ret = "close"]
    /\ pc' = "checkpoint"
    /\ UNCHANGED <<input, db, failure, metrics, i, cell_index, payload, overflow_page_id, eng,
                   walk, batch, batches, inserted, cp_at, codec_vars>>

\* sqlite3_close (sos.cc:439-440) and main's return (sos.cc:539): closing
\* the database drops what an open transaction has not committed
close ==
    /\ pc = "close"
    /\ \E r \in EngineResults :
        IF r = "ok"
        THEN /\ eng' = [eng EXCEPT !.open = FALSE, !.tx = FALSE, !.cursor = FALSE,
                                   !.pending = <<>>]
             /\ pc' = "exit0"
             /\ UNCHANGED failure
        ELSE /\ pc' = "exit1"
             /\ failure' = Fail("engine")
             /\ UNCHANGED eng
    /\ UNCHANGED <<input, db, ctx, metrics, i, cell_index, payload, overflow_page_id, cp,
                   walk, batch, batches, inserted, cp_at, codec_vars>>

Next ==
    \/ main
    \/ begin_restore
    \/ open_and_dump
    \/ loop_exit
    \/ skip_page
    \/ get_page_unmapped
    \/ dump_index_page
    \/ start_transaction
    \/ get_payload
    \/ loop_overflow_pages
    \/ overflow_done
    \/ restore_page
    \/ commit_transaction
    \/ checkpoint
    \/ complete_restore
    \/ close

Spec == Init /\ [][Next]_vars

\* The runs in which the checkpoints are followed to their end: the source
\* files whose cells need no closer look (what a cell decodes to does not
\* reach checkpoint), under every command line.
LiveInputs ==
    {in \in Inputs : in.file \in UniformFiles \cup SpillFiles}

InitLive == Init /\ input \in LiveInputs

\* the engine does not answer BUSY for ever: while checkpoint is in its
\* loop, a call is answered with success or with another error in the end
SpecLive == InitLive /\ [][Next]_vars /\ WF_vars(checkpoint_answered)

(***************************************************************************)
(* The page checksum codec (src/codec.h).                                  *)
(*                                                                         *)
(* A page buffer is a sequence of 32-bit words, each word one of Words;    *)
(* sizes are byte counts.  The two page sizes are the engine's default and *)
(* its double.                                                             *)
(***************************************************************************)
\* the engine's default page size, in words
DefaultPageWords == 3
\* the most hook calls the engine makes on one buffer
MaxCalls == 3

WordSize == 4
Words == {0, 1}
\* sizeof(sum_type_t): part1 and part2
SumSize == 2 * WordSize
SQLITE_DEFAULT_PAGE_SIZE == DefaultPageWords * WordSize
PageSizes == {SQLITE_DEFAULT_PAGE_SIZE, 2 * SQLITE_DEFAULT_PAGE_SIZE}
BufWords == 2 * DefaultPageWords
ReserveSizes == {0, SumSize}
\* page 1 and a page other than 1
PageNumbers == {1, 2}
\* read-page, write-database-page, write-journal-page
Ops == {3, 6, 7}

\* hashlittle2(key, length, pc, pb): the two seeds are mixed with every
\* word of the key, in order, and replaced by the result
RECURSIVE hashlittle2(_, _, _)
hashlittle2(key, pc0, pb0) ==
    IF key = <<>>
    THEN <<(pc0 + pb0) % Cardinality(Words), pb0 % Cardinality(Words)>>
    ELSE hashlittle2(Tail(key),
                     (pc0 + 2 * pb0 + Head(key) + 1) % Cardinality(Words),
                     (pb0 + pc0 + Head(key)) % Cardinality(Words))

\* the second seed, 0x5ca1ab1e (codec.h:79)
SeedPart2 == 1554098974

\* checksum hashing the whole page, the stored sum included
checksum_over_whole_page(pageNumber, buf, pageLen, write) ==
    LET dataLen == (pageLen - SumSize) \div WordSize
        sum == hashlittle2(SubSeq(buf, 1, pageLen \div WordSize),
                           pageNumber % Cardinality(Words),
                           SeedPart2 % Cardinality(Words))
        inPage == <<buf[dataLen + 1], buf[dataLen + 2]>>
    IN  IF write
        THEN [ok |-> TRUE,
              data |-> [k \in 1..Len(buf) |->
                            IF k = dataLen + 1 THEN sum[1]
                            ELSE IF k = dataLen + 2 THEN sum[2] ELSE buf[k]]]
        ELSE [ok |-> (sum = inPage), data |-> buf]

\* checksum with sumOut pointing into the page on reads too: the sum is
\* stored before it is compared
checksum_stores_on_read(pageNumber, buf, pageLen, write) ==
    LET dataLen == (pageLen - SumSize) \div WordSize
        sum == hashlittle2(SubSeq(buf, 1, dataLen), pageNumber % Cardinality(Words),
                           SeedPart2 % Cardinality(Words))
    IN  [ok |-> TRUE,
         data |-> [k \in 1..Len(buf) |->
                       IF k = dataLen + 1 THEN sum[1]
                       ELSE IF k = dataLen + 2 THEN sum[2] ELSE buf[k]]]

\* checksum (codec.h:69-88): the sum of the first pageLen - 8 bytes, seeded
\* with the page number, is stored behind them (write) or compared with
\* what is stored there; the buffer it leaves and what it returns
checksum(pageNumber, buf, pageLen, write) ==
    LET dataLen == (pageLen - SumSize) \div WordSize
        sum == hashlittle2(SubSeq(buf, 1, dataLen), pageNumber % Cardinality(Words),
                           SeedPart2 % Cardinality(Words))
        inPage == <<buf[dataLen + 1], buf[dataLen + 2]>>
    IN  IF write
        THEN [ok |-> TRUE,
              data |-> [k \in 1..Len(buf) |->
                            IF k = dataLen + 1 THEN sum[1]
                            ELSE IF k = dataLen + 2 THEN sum[2] ELSE buf[k]]]
        ELSE [ok |-> (sum = inPage), data |-> buf]

IsWrite(op) == op = 6 \/ op = 7

\* codec writing page 1's default-size sum after the full-size sum
codec_full_size_first(s, buf, pageNumber, op) ==
    LET write == IsWrite(op)
    IN  IF pageNumber # 1 /\ s.reserveSize # SumSize
        THEN [result |-> "NULL", data |-> buf]
        ELSE LET c == checksum(pageNumber, buf, s.pageSize, write)
                 last == IF pageNumber = 1 /\ write /\ s.pageSize > SQLITE_DEFAULT_PAGE_SIZE
                         THEN checksum(pageNumber, c.data, SQLITE_DEFAULT_PAGE_SIZE, write).data
                         ELSE c.data
             IN  [result |-> IF c.ok THEN "data" ELSE "NULL", data |-> last]

\* codec testing the reserve size on reads only
codec_writes_unchecked(s, buf, pageNumber, op) ==
    LET write == IsWrite(op)
        first == IF pageNumber = 1 /\ write /\ s.pageSize > SQLITE_DEFAULT_PAGE_SIZE
                 THEN checksum(pageNumber, buf, SQLITE_DEFAULT_PAGE_SIZE, write).data
                 ELSE buf
    IN  IF pageNumber # 1 /\ ~write /\ s.reserveSize # SumSize
        THEN [result |-> "NULL", data |-> buf]
        ELSE LET c == checksum(pageNumber, first, s.pageSize, write)
             IN  [result |-> IF c.ok THEN "data" ELSE "NULL", data |-> c.data]

\* codec (codec.h:90-122): what it returns (the buffer or NULL) and the
\* buffer it leaves
codec(s, buf, pageNumber, op) ==
    LET write == IsWrite(op)
        first == IF pageNumber = 1 /\ write /\ s.pageSize > SQLITE_DEFAULT_PAGE_SIZE
                 THEN checksum(pageNumber, buf, SQLITE_DEFAULT_PAGE_SIZE, write).data
                 ELSE buf
    IN  IF pageNumber # 1 /\ s.reserveSize # SumSize
        THEN [result |-> "NULL", data |-> buf]
        ELSE LET c == checksum(pageNumber, first, s.pageSize, write)
             IN  [result |-> IF c.ok THEN "data" ELSE "NULL", data |-> c.data]

\* the call reaches checksum with a page length below the size of the sum:
\* the sum would lie before the buffer and the hashed length wraps
Undefined(s, pageNumber) ==
    /\ s.pageSize < SumSize
    /\ pageNumber = 1 \/ s.reserveSize = SumSize

HookCall(kind, s, op, pageNumber, result, before, after) ==
    [kind |-> kind, self |-> s, op |-> op, pageNumber |-> pageNumber,
     result |-> result, before |-> before, after |-> after]

InitCodec ==
    /\ self = [pageSize |-> 0, reserveSize |-> 0]
    /\ data \in [1..BufWords -> Words]
    /\ calls = <<>>
    /\ input = Input(Argv(4, Str(2), <<>>, <<>>), [pages |-> <<HeaderPage>>, tail |-> 0])
    /\ pc = "engine"
    /\ ctx = InitCtx
    /\ metrics = InitMetrics
    /\ i = 0
    /\ cell_index = 0
    /\ payload = NoPayload
    /\ overflow_page_id = 0
    /\ eng = [open |-> TRUE, tx |-> FALSE, cursor |-> FALSE, pending |-> <<>>,
              committed |-> <<>>, misuse |-> FALSE]
    /\ cp = NoCheckpoint
    /\ walk = <<>>
    /\ batch = <<>>
    /\ batches = <<>>
    /\ inserted = <<>>
    /\ cp_at = <<>>
    /\ db = NoDatabase
    /\ failure = "none"

Alive == IF calls = <<>> THEN TRUE ELSE calls[Len(calls)].result # "fault"

\* sizeChange (codec.h:124-128), called by the engine
sizeChange ==
    /\ pc = "engine"
    /\ Alive
    /\ Len(calls) < MaxCalls
    /\ \E new_pageSize \in PageSizes, new_reserveSize \in ReserveSizes :
        /\ self' = [pageSize |-> new_pageSize, reserveSize |-> new_reserveSize]
        /\ calls' = Append(calls, HookCall("sizeChange", self, 0, 0, "none", data, data))
    /\ UNCHANGED <<data, driver_vars>>

\* the engine calls codec on the buffer (codec.h:90-122)
codec_call ==
    /\ pc = "engine"
    /\ Alive
    /\ Len(calls) < MaxCalls
    /\ \E pageNumber \in PageNumbers, op \in Ops :
        IF Undefined(self, pageNumber)
        THEN \E r \in {"fault", "NULL", "data"} :
                /\ calls' = Append(calls, HookCall("codec", self, op, pageNumber, r, data, data))
                /\ UNCHANGED data
        ELSE /\ data' = codec(self, data, pageNumber, op).data
             /\ calls' = Append(calls, HookCall("codec", self, op, pageNumber,
                                                codec(self, data, pageNumber, op).result,
                                                data, data'))
    /\ UNCHANGED <<self, driver_vars>>

NextCodec ==
    \/ sizeChange
    \/ codec_call

SpecCodec == InitCodec /\ [][NextCodec]_vars

(***************************************************************************)
(* Properties of the restore driver, checked under Spec.                   *)
(***************************************************************************)
Range(f) == {f[k] : k \in DOMAIN f}

RECURSIVE Flatten(_)
Flatten(ss) == IF ss = <<>> THEN <<>> ELSE Head(ss) \o Flatten(Tail(ss))

\* the process is inside the body of the page loop, at page i
InPage == pc \in {"start_transaction", "cell", "overflow", "insert"}
FinalCheckpoint == pc = "checkpoint" /\ cp.ret = "close"

\* C1: after a successful run every key that was inserted through the
\* cursor is committed: no write transaction is open when the final
\* checkpoint and the close are issued, and at exit 0 the template holds
\* every inserted key, those of the last, partially filled batch included.
C1_AllInsertedCommitted ==
    /\ FinalCheckpoint => ~eng.tx
    /\ pc = "close" => ~eng.tx
    /\ pc = "exit0" => eng.committed = inserted

\* the pages of the committed batches
CommittedPages == UNION {Range(batches[k]) : k \in DOMAIN batches}

KeysOfPages(keys, pages) ==
    LET OfPages(k) == k.pno \in pages
    IN  SelectSeq(keys, OfPages)

\* C2: after any prefix of the source pages the committed keys are exactly
\* the keys inserted for the pages of the committed batches; the batches,
\* followed by the open one, are the recognised pages processed so far in
\* ascending order, so a page lies in one batch only and its inserts are
\* never split across two commits; what is not committed belongs to the
\* pages of the open batch.
C2_CommittedIsWholeBatches ==
    LET seen == Flatten(batches) \o batch
    IN  /\ eng.committed = KeysOfPages(inserted, CommittedPages)
        /\ \A k \in DOMAIN eng.pending : eng.pending[k].pno \in Range(batch)
        /\ \A k \in DOMAIN seen :
              /\ Recognised(file.pages[seen[k]])
              /\ k > 1 => seen[k - 1] < seen[k]
        /\ \A p \in 1..Len(file.pages) :
              (db.base = "mapped" /\ ctx.start_page <= p /\ p < i /\ Recognised(file.pages[p]))
                  => p \in Range(seen)

\* a batch of two pages is committed, with keys, and a later page's key is
\* pending in the next transaction
C2_Witness ==
    /\ batches # <<>>
    /\ Len(batches[1]) >= 2
    /\ Len(eng.committed) >= 2
    /\ eng.pending # <<>>

\* C3: every committed batch holds exactly pages_per_transaction recognised
\* pages: the commit happens at the end of the N-th page of the batch.
C3_BatchHasNPages ==
    \A k \in DOMAIN batches : Len(batches[k]) = ctx.pages_per_transaction

\* C4: the number of commits before the first in-loop full checkpoint, and
\* between two consecutive ones, is exactly transaction_per_checkpoint, and
\* a full checkpoint resets transaction_in_checkpoint to 0.
C4_CheckpointEveryN ==
    /\ \A k \in DOMAIN cp_at :
          cp_at[k] - (IF k = 1 THEN 0 ELSE cp_at[k - 1]) = ctx.transaction_per_checkpoint
    /\ pc = "checkpoint" => ctx.transaction_in_checkpoint = 0

\* C5: a walk of an overflow chain reads each page at most once and makes
\* at most file_page_count iterations.
C5_OverflowWalkBounded ==
    /\ Len(walk) <= get_page_size
    /\ \A j, k \in DOMAIN walk : j # k => walk[j] # walk[k]

\* C6: every page that is read, by the page loop or while following the
\* overflow pointers, has a number in 1..file_page_count.
C6_ReadsInsideFile ==
    /\ InPage => Mapped(i)
    /\ \A k \in DOMAIN walk : Mapped(walk[k])

\* the cell pointer lies in [header_size, page_size - reserved_page_size)
OffsetValid(page, cell) ==
    header_size(page) <= cell.offset /\ cell.offset < page_size - reserved_page_size

\* C7: a cell whose pointer lies outside [header_size, page_size -
\* reserved_page_size) is not inserted.
C7_BadOffsetNotInserted ==
    \A k \in DOMAIN inserted :
        OffsetValid(file.pages[inserted[k].pno],
                    file.pages[inserted[k].pno].cells[inserted[k].idx + 1])

(***************************************************************************)
(* Properties of the codec, checked under SpecCodec.                       *)
(***************************************************************************)
\* call k is a codec write that returned the buffer and call k + 1 a codec
\* read of the same page number, the codec's sizes unchanged in between
WriteThenRead(k) ==
    /\ k + 1 <= Len(calls)
    /\ calls[k].kind = "codec" /\ calls[k + 1].kind = "codec"
    /\ IsWrite(calls[k].op) /\ ~IsWrite(calls[k + 1].op)
    /\ calls[k].result = "data"
    /\ ~Undefined(calls[k].self, calls[k].pageNumber)
    /\ calls[k + 1].pageNumber = calls[k].pageNumber
    /\ calls[k + 1].self = calls[k].self

\* the words of bytes [0, pageSize - 8)
DataWords(s) == 1..((s.pageSize - SumSize) \div WordSize)

\* the words of bytes [default_page_size - 8, default_page_size)
DefaultSumWords == (DefaultPageWords - 1)..DefaultPageWords

\* the call wrote page 1 with a page size above the default
TwoSums(c) == c.pageNumber = 1 /\ c.self.pageSize > SQLITE_DEFAULT_PAGE_SIZE

\* C8 as stated: a codec write followed by a codec read of the result
\* succeeds, and bytes [0, page_size - 8) are the same as before the write,
\* for every page number, page 1 with a page size above the default included.
C8_RoundTrip ==
    \A k \in DOMAIN calls :
        WriteThenRead(k) =>
            /\ calls[k + 1].result = "data"
            /\ \A j \in DataWords(calls[k].self) : calls[k + 1].after[j] = calls[k].before[j]

\* C8 amended: the read succeeds and bytes [0, page_size - 8) are the same
\* as before the write, except that on page 1 with a page size above the
\* default bytes [default_page_size - 8, default_page_size) hold the sum of
\* bytes [0, default_page_size - 8).
C8_RoundTripAmended ==
    \A k \in DOMAIN calls :
        WriteThenRead(k) =>
            /\ calls[k + 1].result = "data"
            /\ \A j \in DataWords(calls[k].self) :
                  IF TwoSums(calls[k]) /\ j \in DefaultSumWords
                  THEN calls[k + 1].after[j] =
                          hashlittle2(SubSeq(calls[k].before, 1, DefaultPageWords - 2),
                                      1 % Cardinality(Words),
                                      SeedPart2 % Cardinality(Words))[j - (DefaultPageWords - 2)]
                  ELSE calls[k + 1].after[j] = calls[k].before[j]

\* a write of page 1 above the default size changed a byte below
\* page_size - 8, and the read that followed returned the buffer
C8_Witness ==
    \E k \in DOMAIN calls :
        /\ WriteThenRead(k)
        /\ TwoSums(calls[k])
        /\ calls[k + 1].result = "data"
        /\ \E j \in DataWords(calls[k].self) : calls[k + 1].after[j] # calls[k].before[j]

\* call k is a codec write of page 1 with a page size above the default
WriteOfPageOne(k) ==
    /\ calls[k].kind = "codec"
    /\ IsWrite(calls[k].op)
    /\ TwoSums(calls[k])

\* C9: after a codec write of page 1 with a page size above the default the
\* page verifies under both lengths: the sum at default_page_size - 8 is
\* that of bytes [0, default_page_size - 8) and the sum at page_size - 8 is
\* that of bytes [0, page_size - 8).
C9_PageOneVerifiesUnderBothSizes ==
    \A k \in DOMAIN calls :
        WriteOfPageOne(k) =>
            /\ calls[k].result = "data"
            /\ checksum(1, calls[k].after, SQLITE_DEFAULT_PAGE_SIZE, FALSE).ok
            /\ checksum(1, calls[k].after, calls[k].self.pageSize, FALSE).ok

\* page 1 was written above the default size over a buffer that verified
\* under neither length
C9_Witness ==
    \E k \in DOMAIN calls :
        /\ WriteOfPageOne(k)
        /\ ~checksum(1, calls[k].before, SQLITE_DEFAULT_PAGE_SIZE, FALSE).ok
        /\ ~checksum(1, calls[k].before, calls[k].self.pageSize, FALSE).ok

\* call k is a codec call for a page other than 1 made while reserveSize
\* is not the size of the sum
Unreserved(k) ==
    /\ calls[k].kind = "codec"
    /\ calls[k].pageNumber # 1
    /\ calls[k].self.reserveSize # SumSize

\* C10: for a page number other than 1 and any operation, codec returns
\* NULL whenever reserveSize is not 8, and leaves the buffer as it was; so
\* does every such call made before sizeChange has set reserveSize to 8.
C10_RefusesWithoutReserve ==
    \A k \in DOMAIN calls :
        Unreserved(k) => calls[k].result = "NULL" /\ calls[k].after = calls[k].before

\* a write of page 2 before any sizeChange, and one after a sizeChange that
\* set a page size and a reserve size of 0
C10_Witness ==
    /\ Len(calls) >= 3
    /\ Unreserved(1) /\ IsWrite(calls[1].op)
    /\ calls[2].kind = "sizeChange"
    /\ Unreserved(3) /\ IsWrite(calls[3].op) /\ calls[3].self.pageSize > 0

(***************************************************************************)
(* Properties of the payload decoder, checked under Spec.                  *)
(***************************************************************************)
\* get_payload has computed max_embed_payload_size for the cell at hand
Decoded == pc \in {"overflow", "insert"}

\* C12 as stated: for every declared payload size P, sizes below min_local
\* included, the local size never exceeds max_local, is never less than
\* min_local when P > max_local, and equals P when P <= max_local; for
\* P = max_local + 1 it equals min_local.
C12_LocalSize ==
    Decoded =>
        LET P == payload.payload_body_size
            local == payload.max_embed_payload_size
        IN  /\ local <= max_local
            /\ P > max_local => local >= min_local
            /\ P <= max_local => local = P
            /\ P = max_local + 1 => local = min_local

\* C12 amended: the local size never exceeds max_local, is never less than
\* min_local when P > max_local, equals P when min_local <= P <= max_local
\* and equals min_local when P < min_local; for P = max_local + 1 it equals
\* min_local.
C12_LocalSizeAmended ==
    Decoded =>
        LET P == payload.payload_body_size
            local == payload.max_embed_payload_size
        IN  /\ local <= max_local
            /\ P > max_local => local >= min_local
            /\ (min_local <= P /\ P <= max_local) => local = P
            /\ P < min_local => local = min_local
            /\ P = max_local + 1 => local = min_local

\* a payload size below min_local, not 0, has been given min_local as its
\* local size
C12_Witness ==
    /\ pc = "insert"
    /\ 0 < payload.payload_body_size
    /\ payload.payload_body_size < min_local
    /\ payload.max_embed_payload_size = min_local

\* the pages of the chain that starts at page pno, followed for at most n
\* links, up to a link of 0 or a page outside the file
RECURSIVE ChainOf(_, _)
ChainOf(pno, n) ==
    IF n = 0 \/ pno = 0 \/ ~Mapped(pno) THEN <<>>
    ELSE <<pno>> \o ChainOf(Link(file.pages[pno]), n - 1)

\* the cell's local bytes and its overflow chain carry exactly P bytes: the
\* cell lies inside the page, and when the payload spills the chain has the
\* pages the rest needs and ends there
ChainComplete(page, cell) ==
    /\ OffsetValid(page, cell)
    /\ LET n == OverflowCount(cell.P)
           chain == ChainOf(cell.ovfl, n + 1)
       IN  n > 0 => /\ Len(chain) = n
                    /\ Link(file.pages[chain[n]]) = 0

\* the payload of the cell as the file holds it: the local bytes of page
\* pno, then up to usable_size - 4 bytes of each overflow page in chain order
Original(pno, cell) ==
    LET n == OverflowCount(cell.P)
        chain == ChainOf(cell.ovfl, n)
        rest(k) == cell.P - LocalBytes(cell.P) - (k - 1) * (usable_size - 4)
    IN  AddSeg(<<>>, pno, LocalBytes(cell.P))
        \o [k \in 1..n |-> Seg(chain[k], Min(rest(k), usable_size - 4))]

RECURSIVE SegsLen(_)
SegsLen(segs) == IF segs = <<>> THEN 0 ELSE Head(segs).len + SegsLen(Tail(segs))

\* C13: for a leaf or interior index cell of declared size P whose local
\* bytes and overflow chain carry exactly P bytes, get_payload returns a
\* buffer of length P that holds the original payload, the local bytes
\* first and then the bytes of each overflow page in chain order; at no
\* time is a byte written past position P of the buffer.
C13_Reassembly ==
    /\ (pc = "insert" /\ ChainComplete(ThisPage, ThisCell)) =>
          /\ payload.payload_body_size = ThisCell.P
          /\ payload.done = ThisCell.P
          /\ SegsLen(payload.segs) = ThisCell.P
          /\ payload.segs = Original(i, ThisCell)
    /\ Decoded => payload.done <= payload.payload_body_size

\* a payload has been put together from its local bytes and a chain of
\* three overflow pages that is not in ascending page order
C13_Witness ==
    /\ pc = "insert"
    /\ ChainComplete(ThisPage, ThisCell)
    /\ Len(payload.segs) = 4
    /\ payload.segs[2].src > payload.segs[3].src

(***************************************************************************)
(* Properties of the checkpoints, checked under SpecLive.                  *)
(***************************************************************************)
\* the attempts of a full checkpoint are in order: RESTART is asked for
\* only after FULL has succeeded, an attempt the engine answered with BUSY
\* is followed by one in the same mode, an attempt that succeeded is
\* followed by the next mode, and any other error is the last attempt and
\* ends the process
AttemptsInOrder ==
    /\ \A k \in DOMAIN cp.log :
          /\ cp.log[k].restart =>
                \E j \in 1..(k - 1) : ~cp.log[j].restart /\ cp.log[j].rc = "ok"
          /\ k > 1 =>
                /\ cp.log[k - 1].rc = "busy" => cp.log[k].restart = cp.log[k - 1].restart
                /\ cp.log[k - 1].rc = "ok" => ~cp.log[k - 1].restart /\ cp.log[k].restart
                /\ cp.log[k - 1].rc # "error"
          /\ cp.log[k].rc = "error" => pc = "exit1"
    /\ (cp.log # <<>> /\ cp.log[Len(cp.log)].rc = "busy") => pc = "checkpoint"
    /\ (cp.log # <<>> /\ cp.log[Len(cp.log)].rc = "ok") =>
          IF cp.log[Len(cp.log)].restart THEN pc # "checkpoint" ELSE pc = "checkpoint"

\* C14: a full checkpoint asks for FULL and then RESTART, RESTART never
\* before a FULL attempt has succeeded; a mode is tried again for as long
\* as the engine answers BUSY; any other error ends the process; and when
\* the engine stops answering BUSY the full checkpoint comes to an end.
C14_FullCheckpoint ==
    /\ []AttemptsInOrder
    /\ (pc = "checkpoint") ~> (pc # "checkpoint")

\* a full checkpoint has completed in which FULL was busy, then succeeded,
\* and RESTART was busy, then succeeded
C14_Witness ==
    /\ pc \in {"loop", "close"}
    /\ cp.log = <<Attempt(FALSE, "busy"), Attempt(FALSE, "ok"),
                  Attempt(TRUE, "busy"), Attempt(TRUE, "ok")>>

(***************************************************************************)
(* Properties of main, checked under Spec.                                 *)
(***************************************************************************)
\* main has accepted the command line
Parsed == pc \notin {"main", "exit1", "engine"}

\* C15: each optional argument that is given overrides its default: with
\* pages_per_transaction given, followed by transaction_per_checkpoint or
\* not, the driver uses the value given and not 1024, and with
\* transaction_per_checkpoint given it uses the value given and not 10.
C15_OptionalArgsOverride ==
    Parsed =>
        /\ input.args.argc >= 5 =>
              ctx.pages_per_transaction = strtol(input.args.a4).value
        /\ input.args.argc >= 6 =>
              ctx.transaction_per_checkpoint = strtol(input.args.a5).value

\* C16: any failure is fatal: after an invalid argument, a failing stat,
\* open or mmap of the source file, or an engine call that returned an
\* error other than BUSY from a checkpoint, the process is at exit(1),
\* where it makes no further call, and exit code 0 is reached only when
\* none of these occurred.
C16_FailureIsFatal ==
    /\ failure # "none" => pc = "exit1"
    /\ pc = "exit0" => failure = "none"

(***************************************************************************)
(* Properties of the page loop, checked under Spec.                        *)
(***************************************************************************)
\* the pages the loop has classified
Classified == metrics.pages + metrics.skip_pages

\* the loop is between two pages, or has ended
BetweenPages ==
    \/ pc \in {"loop", "complete_restore", "close", "exit0"}
    \/ FinalCheckpoint

\* the loop is at page i, which it has classified
AtPage == InPage \/ (pc = "checkpoint" /\ cp.ret = "loop")

Max(a, b) == IF a > b THEN a ELSE b

\* C17: the loop classifies each page number from start_page to the page
\* count once and in ascending order, page 1 never; the inserts of a page
\* follow the index order of its cell pointers, so the insert_key calls
\* are in the order of (page number, cell index).
C17_AscendingOrder ==
    /\ BetweenPages => Classified = i - ctx.start_page
    /\ AtPage => Classified = i - ctx.start_page + 1
    /\ AtPage => 2 <= i /\ ctx.start_page <= i /\ i <= get_page_size
    /\ (BetweenPages /\ pc # "loop") => i = Max(ctx.start_page, get_page_size + 1)
    /\ \A k \in DOMAIN inserted :
          /\ inserted[k].pno >= ctx.start_page
          /\ k > 1 =>
                \/ inserted[k - 1].pno < inserted[k].pno
                \/ /\ inserted[k - 1].pno = inserted[k].pno
                   /\ inserted[k - 1].idx < inserted[k].idx

\* the loop has ended after two keys of one page, a skipped page and a key
\* of a later page
C17_Witness ==
    /\ pc = "complete_restore"
    /\ metrics.skip_pages >= 1
    /\ Len(inserted) = 3
    /\ inserted[1].pno = inserted[2].pno
    /\ inserted[3].pno > inserted[2].pno + 1

\* C18: a cell whose overflow chain ends, with a link of 0, before the P
\* declared bytes have been copied is marked invalid and not inserted: no
\* key is inserted whose buffer has a tail that was never read from the
\* source.
C18_ShortChainNotInserted ==
    /\ (pc = "insert" /\ payload.done < payload.payload_body_size) => ~payload.valid
    /\ \A k \in DOMAIN inserted : SegsLen(inserted[k].segs) = inserted[k].size

\* the loop is at a page that no read has failed on and whose first byte
\* is neither 0x02 nor 0x0a
AtSkippedPage == pc = "loop" /\ InLoop /\ db.base = "mapped" /\ ~Recognised(ThisPage)

\* C19: a page whose first byte is neither 0x02 nor 0x0a only increments
\* skip_pages: no transaction begins, nothing is inserted, committed or
\* checkpointed, and pages, cells, bytes, pages_in_transaction and
\* transaction_in_checkpoint stay as they are.
C19_SkipOnlyCounts ==
    [][AtSkippedPage =>
          /\ metrics' = [metrics EXCEPT !.skip_pages = @ + 1]
          /\ pc' = "loop"
          /\ i' = i + 1
          /\ UNCHANGED <<ctx, eng, cp, batch, batches, inserted, cp_at>>]_vars

\* a page has been skipped while the transaction of the page before it is
\* open, with a key pending
C19_Witness ==
    /\ pc = "loop"
    /\ i = 4
    /\ db.base = "mapped"
    /\ Recognised(file.pages[2])
    /\ ~Recognised(file.pages[3])
    /\ metrics.skip_pages = 1
    /\ ctx.pages_in_transaction = 1
    /\ eng.pending # <<>>

\* the recognised pages processed so far, the one at hand included
Processed == Flatten(batches) \o batch

RECURSIVE SumCells(_)
SumCells(pages) ==
    IF pages = <<>> THEN 0 ELSE Len(file.pages[Head(pages)].cells) + SumCells(Tail(pages))

RECURSIVE SumSizes(_)
SumSizes(keys) == IF keys = <<>> THEN 0 ELSE Head(keys).size + SumSizes(Tail(keys))

\* C20: pages is the number of recognised pages processed, cells the sum of
\* their cell counts, empty and invalid cells included, and bytes the sum of
\* the lengths of the keys passed to insert_key; a recognised page without
\* cells produces no insert, is counted in pages and counts as a page of
\* the open transaction.
C20_Metrics ==
    /\ pc # "exit1" =>
          /\ metrics.pages = Len(Processed)
          /\ metrics.bytes = SumSizes(inserted)
          /\ ctx.pages_in_transaction = Len(batch)
    /\ (BetweenPages \/ pc \in {"cell", "overflow", "insert", "checkpoint"}) =>
          metrics.cells = SumCells(Processed)
    /\ \A k \in DOMAIN inserted : file.pages[inserted[k].pno].cells # <<>>

\* a page without cells has been processed after a page with two keys, in
\* the same transaction
C20_Witness ==
    /\ pc = "loop"
    /\ i = 4
    /\ Processed = <<2, 3>>
    /\ file.pages[3].cells = <<>>
    /\ metrics.pages = 2
    /\ metrics.cells = 2
    /\ Len(inserted) = 2
    /\ ctx.pages_in_transaction = 2

(***************************************************************************)
(* The transaction discipline of the driver, checked under Spec.           *)
(***************************************************************************)
\* the process has not ended
Running == pc \notin {"exit0", "exit1", "crashed", "engine"}

\* a write transaction with an open cursor exists
WriteOpen == eng.tx /\ eng.cursor

\* the calls are made in order, and the counter stays in its range: the
\* transaction is begun and the cursor opened only while no transaction is
\* open, keys are inserted only through an open cursor, the cursor is
\* closed and the transaction committed only while one is open, the close
\* before the commit
CallsInOrder ==
    /\ ~eng.misuse
    /\ 0 <= ctx.pages_in_transaction
    /\ ctx.pages_in_transaction <= ctx.pages_per_transaction + 1

\* C21 as stated: in every state of the running process
\* pages_in_transaction > 0 holds exactly when a write transaction with an
\* open cursor exists; the engine calls are made in order and
\* 0 <= pages_in_transaction <= pages_per_transaction + 1.
C21_Discipline ==
    /\ Running => ((ctx.pages_in_transaction > 0) <=> WriteOpen)
    /\ CallsInOrder

\* C21 amended: wherever the driver is outside start_transaction, which
\* sets the counter before it begins the transaction, pages_in_transaction
\* > 0 holds exactly when a write transaction with an open cursor exists;
\* the engine calls are made in order and the counter stays in its range.
C21_DisciplineAmended ==
    /\ (Running /\ pc # "start_transaction") =>
          ((ctx.pages_in_transaction > 0) <=> WriteOpen)
    /\ CallsInOrder

\* a transaction has been committed and the next one is open with a key
\* pending, its counter at 1
C21_Witness ==
    /\ pc = "insert"
    /\ batches # <<>>
    /\ eng.committed # <<>>
    /\ eng.pending # <<>>
    /\ WriteOpen
    /\ ctx.pages_in_transaction = 1

(***************************************************************************)
(* The frame of the codec's reads, checked under SpecCodec.                *)
(***************************************************************************)
\* call k is a codec call whose operation is not a write
ReadCall(k) == calls[k].kind = "codec" /\ ~IsWrite(calls[k].op)

\* pageSize and reserveSize after call k
SelfAfter(k) == IF k < Len(calls) THEN calls[k + 1].self ELSE self

\* C22: a codec call whose operation is not a write (any op other than 6
\* and 7) leaves every byte of the page buffer as it was, whether it
\* returns the buffer or NULL, and no codec call changes pageSize or
\* reserveSize: only sizeChange does.  The engine's calls use op 3 for
\* reads; ops 0, 4 and 5 are applied to the buffer as well.  Every buffer
\* is an initial buffer, so every pair of sizes and buffer is met by the
\* time of the second call.
C22_ReadsChangeNothing ==
    /\ \A k \in DOMAIN calls :
          /\ ReadCall(k) => calls[k].after = calls[k].before
          /\ calls[k].kind = "codec" => SelfAfter(k) = calls[k].self
    /\ \A op \in {0, 3, 4, 5}, pageNumber \in PageNumbers :
          (pc = "engine" /\ Len(calls) <= 1 /\ ~Undefined(self, pageNumber)) =>
              codec(self, data, pageNumber, op).data = data

\* after a sizeChange, a read has returned NULL over a stored sum that does
\* not match and another read, of the other page number, has returned the
\* buffer
C22_Witness ==
    /\ Len(calls) >= 3
    /\ calls[1].kind = "sizeChange"
    /\ \E j, k \in 2..Len(calls) :
          /\ ReadCall(j) /\ calls[j].result = "NULL"
          /\ ~Unreserved(j) /\ ~Undefined(calls[j].self, calls[j].pageNumber)
          /\ ReadCall(k) /\ calls[k].result = "data"

=============================================================================
